---- MODULE Spec2Model ----
(***************************************************************************)
(* pdf-merge (src/src/main.rs): the front end of main() that loads the     *)
(* discovered inputs, and merge_documents(), which renumbers every input,  *)
(* collects its pages and a bookmark, reconciles the Catalog and Pages     *)
(* roots, rebuilds the page tree and links a fresh outline.                *)
(*                                                                         *)
(* Object ids are the object numbers (the generation number is kept by     *)
(* every operation of the program and plays no part).  A BTreeMap is a     *)
(* function over its key set; its iteration order is ascending key order.  *)
(* The lopdf primitives the program calls (renumber_objects_with,          *)
(* get_pages, Dictionary::extend, build_outline, ...) are modelled at the  *)
(* call sites by their contract.                                           *)
(***************************************************************************)
EXTENDS Integers, Sequences, FiniteSets, TLC

\* ------------------------------------------------------------------ bounds
MaxInputs == 3
MaxTreeDepth == 3

\* ------------------------------------------------------------ lopdf values
\* An Object::Name, Object::Reference, Object::Integer, an Object::Array of
\* references and an Object::String (a prefix followed by decimal digits).
Name(s) == [t |-> "name", s |-> s, n |-> 0, a |-> <<>>]
Ref(i) == [t |-> "ref", s |-> "", n |-> i, a |-> <<>>]
Integer(i) == [t |-> "int", s |-> "", n |-> i, a |-> <<>>]
Arr(ids) == [t |-> "arr", s |-> "", n |-> 0, a |-> ids]
Str(prefix, digits) == [t |-> "str", s |-> prefix, n |-> 0, a |-> digits]

Dict(d) == [kind |-> "dict", d |-> d]
Stream(d) == [kind |-> "stream", d |-> d]

EmptyDict == [x \in {} |-> Name("")]
EmptyMap == [x \in {} |-> Dict(EmptyDict)]

Range(seq) == {seq[i] : i \in DOMAIN seq}

\* Dictionary::set, Dictionary::remove
DictSet(d, k, v) == [x \in DOMAIN d \cup {k} |-> IF x = k THEN v ELSE d[x]]
DictRemove(d, k) == [x \in DOMAIN d \ {k} |-> d[x]]

\* A reversed Dictionary::extend in which the receiver's entries survive.
DictExtendReceiverWins(d, other) ==
    [x \in DOMAIN d \cup DOMAIN other |-> IF x \in DOMAIN d THEN d[x] ELSE other[x]]

\* Dictionary::extend: every entry of `other` is inserted into the receiver,
\* replacing the receiver's entry under the same key.
DictExtend(d, other) ==
    [x \in DOMAIN d \cup DOMAIN other |-> IF x \in DOMAIN other THEN other[x] ELSE d[x]]

\* BTreeMap::extend: entries of `other` replace entries under the same key.
MapExtend(m, other) ==
    [x \in DOMAIN m \cup DOMAIN other |-> IF x \in DOMAIN other THEN other[x] ELSE m[x]]

\* BTreeMap::insert
MapInsert(m, k, v) == [x \in DOMAIN m \cup {k} |-> IF x = k THEN v ELSE m[x]]

\* Object::type_name().unwrap_or(b""): the Type name of a dictionary or of a
\* stream's dictionary.
TypeName(o) ==
    IF "Type" \in DOMAIN o.d /\ o.d["Type"].t = "name" THEN o.d["Type"].s ELSE ""

\* Object::as_dict() succeeds on Object::Dictionary only.
IsDict(o) == o.kind = "dict"

\* The ids a value references.
ValueRefs(v) == IF v.t = "ref" THEN {v.n} ELSE IF v.t = "arr" THEN Range(v.a) ELSE {}
DictRefs(d) == UNION {ValueRefs(d[k]) : k \in DOMAIN d}

KidsOf(d) == IF "Kids" \in DOMAIN d /\ d["Kids"].t = "arr" THEN d["Kids"].a ELSE <<>>

\* Document::page_iter: depth-first over Kids; a "Page" dictionary is yielded,
\* a "Pages" dictionary is descended into, anything else is passed over.
RECURSIVE KidsPages(_, _, _)
KidsPages(objs, kids, depth) ==
    IF kids = <<>> \/ depth = 0 THEN <<>>
    ELSE LET k == Head(kids)
             here == IF k \in DOMAIN objs /\ IsDict(objs[k])
                     THEN IF TypeName(objs[k]) = "Page" THEN <<k>>
                          ELSE IF TypeName(objs[k]) = "Pages"
                               THEN KidsPages(objs, KidsOf(objs[k].d), depth - 1)
                               ELSE <<>>
                     ELSE <<>>
         IN here \o KidsPages(objs, Tail(kids), depth)

\* Document::get_pages(): page number -> ObjectId, i.e. the page ids in
\* page-tree order, found from trailer Root -> Catalog -> Pages -> Kids.
GetPages(doc) ==
    LET t == doc.trailer
        objs == doc.objects
    IN IF "Root" \in DOMAIN t /\ t["Root"].t = "ref" /\ t["Root"].n \in DOMAIN objs
          /\ IsDict(objs[t["Root"].n])
       THEN LET c == objs[t["Root"].n].d
            IN IF "Pages" \in DOMAIN c /\ c["Pages"].t = "ref" /\ c["Pages"].n \in DOMAIN objs
                  /\ IsDict(objs[c["Pages"].n])
               THEN KidsPages(objs, KidsOf(objs[c["Pages"].n].d), MaxTreeDepth)
               ELSE <<>>
       ELSE <<>>

\* ------------------------------------------------------------- renumbering
Rank(S, x) == Cardinality({y \in S : y < x})

\* The replacement of one id: the ids present, in ascending order, take
\* start, start+1, ...; an id that is not a key of the store is left alone.
NewId(ids, start, i) == IF i \in ids THEN start + Rank(ids, i) ELSE i

RenumberValue(v, ids, start) ==
    IF v.t = "ref" THEN [v EXCEPT !.n = NewId(ids, start, v.n)]
    ELSE IF v.t = "arr" THEN [v EXCEPT !.a = [j \in DOMAIN v.a |-> NewId(ids, start, v.a[j])]]
    ELSE v

RenumberDict(d, ids, start) == [k \in DOMAIN d |-> RenumberValue(d[k], ids, start)]

\* Document::renumber_objects_with(starting_id): re-keys the store, rewrites
\* every Reference (objects, trailer, bookmark targets), sets max_id to the
\* highest id now in use.
RenumberObjectsWith(doc, start) ==
    LET ids == DOMAIN doc.objects
        new == {NewId(ids, start, i) : i \in ids}
        old(j) == CHOOSE i \in ids : NewId(ids, start, i) = j
    IN [objects |-> [j \in new |-> [doc.objects[old(j)] EXCEPT
                                      !.d = RenumberDict(@, ids, start)]],
        trailer |-> RenumberDict(doc.trailer, ids, start),
        bookmarks |-> [b \in DOMAIN doc.bookmarks |->
                          [doc.bookmarks[b] EXCEPT !.page = NewId(ids, start, @)]],
        max_id |-> start + Cardinality(ids) - 1]

\* ------------------------------------------------------------------ inputs
\* The decoded inputs main() can hand to merge_documents.  Ids are the ids the
\* file itself uses (they need be neither contiguous nor in page order).
NewDoc(objs, trailer) ==
    [objects |-> objs, trailer |-> trailer, bookmarks |-> <<>>, max_id |-> 0]

\* Two pages sharing a content stream.
DocSimple ==
    NewDoc(  (1 :> Dict([Type |-> Name("Catalog"), Pages |-> Ref(2), Lang |-> Name("en")]))
          @@ (2 :> Dict([Type |-> Name("Pages"), Kids |-> Arr(<<3, 4>>), Count |-> Integer(2),
                         MediaBox |-> Name("A4")]))
          @@ (3 :> Dict([Type |-> Name("Page"), Parent |-> Ref(2), Contents |-> Ref(5)]))
          @@ (4 :> Dict([Type |-> Name("Page"), Parent |-> Ref(2), Contents |-> Ref(5)]))
          @@ (5 :> Stream([Length |-> Integer(7)])),
          [Root |-> Ref(1)])

\* Sparse ids, an outline whose root precedes the Catalog, pages listed in
\* the page tree against their id order, and a Page object left out of Kids.
DocOutlined ==
    NewDoc(  (2 :> Dict([Type |-> Name("Outlines"), First |-> Ref(3), Last |-> Ref(3)]))
          @@ (3 :> Dict([Type |-> Name("Outline"), Parent |-> Ref(2), Dest |-> Arr(<<9>>)]))
          @@ (4 :> Dict([Type |-> Name("Catalog"), Pages |-> Ref(7), Outlines |-> Ref(2),
                         Lang |-> Name("fr")]))
          @@ (7 :> Dict([Type |-> Name("Pages"), Kids |-> Arr(<<9, 8>>), Count |-> Integer(2),
                         Rotate |-> Integer(90)]))
          @@ (8 :> Dict([Type |-> Name("Page"), Parent |-> Ref(7)]))
          @@ (9 :> Dict([Type |-> Name("Page"), Parent |-> Ref(7)]))
          @@ (10 :> Dict([Type |-> Name("Page"), Parent |-> Ref(7)])),
          [Root |-> Ref(4)])

\* A two-level page tree whose intermediate node precedes the root, with an
\* outline.
DocNested ==
    NewDoc(  (1 :> Dict([Type |-> Name("Catalog"), Pages |-> Ref(6), Outlines |-> Ref(4)]))
          @@ (2 :> Dict([Type |-> Name("Pages"), Parent |-> Ref(6), Kids |-> Arr(<<3>>),
                         Count |-> Integer(1), Rotate |-> Integer(180)]))
          @@ (3 :> Dict([Type |-> Name("Page"), Parent |-> Ref(2)]))
          @@ (4 :> Dict([Type |-> Name("Outlines"), First |-> Ref(5), Last |-> Ref(5)]))
          @@ (5 :> Dict([Type |-> Name("Outline"), Parent |-> Ref(4), Dest |-> Arr(<<3>>)]))
          @@ (6 :> Dict([Type |-> Name("Pages"), Kids |-> Arr(<<2>>), Count |-> Integer(1),
                         MediaBox |-> Name("Letter")])),
          [Root |-> Ref(1)])

\* A Catalog and a Pages root with no page.
DocNoPage ==
    NewDoc(  (1 :> Dict([Type |-> Name("Catalog"), Pages |-> Ref(2), Lang |-> Name("de")]))
          @@ (2 :> Dict([Type |-> Name("Pages"), Kids |-> Arr(<<>>), Count |-> Integer(0),
                         CropBox |-> Name("A5")])),
          [Root |-> Ref(1)])

\* A document with an empty object store.
DocEmpty == NewDoc(EmptyMap, EmptyDict)

\* The root dictionary carries no Type: lopdf follows trailer Root without
\* looking at it, the reconciler does not classify it as a Catalog.
DocUntypedCatalog ==
    NewDoc(  (1 :> Dict([Pages |-> Ref(2)]))
          @@ (2 :> Dict([Type |-> Name("Pages"), Kids |-> Arr(<<3>>), Count |-> Integer(1)]))
          @@ (3 :> Dict([Type |-> Name("Page"), Parent |-> Ref(2)])),
          [Root |-> Ref(1)])

\* The page-tree root carries no Type.
DocUntypedPages ==
    NewDoc(  (1 :> Dict([Type |-> Name("Catalog"), Pages |-> Ref(2)]))
          @@ (2 :> Dict([Kids |-> Arr(<<3>>), Count |-> Integer(1)]))
          @@ (3 :> Dict([Type |-> Name("Page"), Parent |-> Ref(2)])),
          [Root |-> Ref(1)])

\* What image_to_doc returns: the one-page document printpdf wrote, reloaded.
DocImage ==
    NewDoc(  (1 :> Dict([Type |-> Name("Pages"), Kids |-> Arr(<<2>>), Count |-> Integer(1)]))
          @@ (2 :> Dict([Type |-> Name("Page"), Parent |-> Ref(1), Contents |-> Ref(3)]))
          @@ (3 :> Stream([Length |-> Integer(9)]))
          @@ (4 :> Dict([Type |-> Name("Catalog"), Pages |-> Ref(1)])),
          [Root |-> Ref(4)])

PdfDocs == {DocSimple, DocOutlined, DocNested, DocNoPage, DocEmpty,
            DocUntypedCatalog, DocUntypedPages}

\* What the glob loops of main() meet: an entry of the *.pdf loop or of one of
\* the image loops; glob yields a path (decodable or not) or an error.
PdfEntries ==
    {[glob |-> "pdf", res |-> "ok", doc |-> d] : d \in PdfDocs}
    \cup {[glob |-> "pdf", res |-> r, doc |-> DocEmpty] : r \in {"undecodable", "globerr"}}
ImageEntries ==
    {[glob |-> "img", res |-> "ok", doc |-> DocImage]}
    \cup {[glob |-> "img", res |-> r, doc |-> DocEmpty] : r \in {"undecodable", "globerr"}}

\* main() runs the *.pdf loop before the image loops.
EntryLists ==
    {es \in UNION {[1..n -> PdfEntries \cup ImageEntries] : n \in 0..MaxInputs} :
        \A i, j \in DOMAIN es : i < j /\ es[i].glob = "img" => es[j].glob = "img"}

\* ------------------------------------------------------------------- state
VARIABLES
    pc,                 \* position in main() / merge_documents()
    entries,            \* the glob results, in the order main() meets them
    next,               \* index of the next entry
    failed,             \* a load of a discovered path has failed
    input_documents,    \* main.rs:323
    idx,                \* index of the per-input loop, main.rs:50
    max_id,             \* main.rs:43
    pagenum,            \* main.rs:44
    documents_pages,    \* main.rs:46
    documents_objects,  \* main.rs:47
    document,           \* main.rs:48
    renumbered,         \* the value of `doc` after line 52, per iteration, with its offset
    catalog_object,     \* main.rs:80
    pages_object,       \* main.rs:81
    cursor,             \* last key visited by the loop of main.rs:84
    outline,            \* the result of build_outline(), main.rs:202
    result              \* how merge_documents returned

vars == <<pc, entries, next, failed, input_documents, idx, max_id, pagenum,
          documents_pages, documents_objects, document, renumbered,
          catalog_object, pages_object, cursor, outline, result>>

frontVars == <<entries, next, failed, input_documents>>
loopVars == <<idx, max_id, pagenum, documents_pages, documents_objects, renumbered>>
scanVars == <<catalog_object, pages_object, cursor>>

None == [some |-> FALSE, id |-> 0, obj |-> Dict(EmptyDict)]
Some(id, obj) == [some |-> TRUE, id |-> id, obj |-> obj]

Init ==
    /\ pc = "load"
    /\ entries \in EntryLists
    /\ next = 1
    /\ failed = FALSE
    /\ input_documents = <<>>
    /\ idx = 1
    /\ max_id = 1
    /\ pagenum = 1
    /\ documents_pages = EmptyMap
    /\ documents_objects = EmptyMap
    /\ document = NewDoc(EmptyMap, EmptyDict)
    /\ renumbered = <<>>
    /\ catalog_object = None
    /\ pages_object = None
    /\ cursor = 0
    /\ outline = None
    /\ result = "running"

\* ------------------------------------------------------------------ main()
mergeVars == <<idx, max_id, pagenum, documents_pages, documents_objects, document,
               renumbered, catalog_object, pages_object, cursor, outline, result>>

AtEntry(glob, res) ==
    /\ pc = "load"
    /\ next <= Len(entries)
    /\ entries[next].glob = glob
    /\ entries[next].res = res

\* Err(e) => println!("{:?}", e): the entry is reported and passed over.
GlobError ==
    /\ pc = "load"
    /\ next <= Len(entries)
    /\ entries[next].res = "globerr"
    /\ next' = next + 1
    /\ UNCHANGED <<pc, entries, failed, input_documents>>
    /\ UNCHANGED mergeVars

\* Ok(path) => input_documents.push(Document::load(path).unwrap()), load Ok.
LoadPdf ==
    /\ AtEntry("pdf", "ok")
    /\ input_documents' = Append(input_documents, entries[next].doc)
    /\ next' = next + 1
    /\ UNCHANGED <<pc, entries, failed>>
    /\ UNCHANGED mergeVars

\* A load failure that is reported and passed over.
LoadPdfSkip ==
    /\ AtEntry("pdf", "undecodable")
    /\ failed' = TRUE
    /\ next' = next + 1
    /\ UNCHANGED <<pc, entries, input_documents>>
    /\ UNCHANGED mergeVars

\* Document::load(path) is Err: unwrap() panics and the process ends.
LoadPdfPanic ==
    /\ AtEntry("pdf", "undecodable")
    /\ failed' = TRUE
    /\ pc' = "aborted"
    /\ UNCHANGED <<entries, next, input_documents>>
    /\ UNCHANGED mergeVars

\* Ok(path) => input_documents.push(image_to_doc(path)), the image is read.
LoadImage ==
    /\ AtEntry("img", "ok")
    /\ input_documents' = Append(input_documents, entries[next].doc)
    /\ next' = next + 1
    /\ UNCHANGED <<pc, entries, failed>>
    /\ UNCHANGED mergeVars

\* image_to_doc: read_image_from_file is Err: the warning is printed and
\* abort() ends the process.
LoadImageAbort ==
    /\ AtEntry("img", "undecodable")
    /\ failed' = TRUE
    /\ pc' = "aborted"
    /\ UNCHANGED <<entries, next, input_documents>>
    /\ UNCHANGED mergeVars

\* let mut document = merge_documents(input_documents);
CallMerge ==
    /\ pc = "load"
    /\ next > Len(entries)
    /\ pc' = IF input_documents = <<>> THEN "scan" ELSE "inputs"
    /\ UNCHANGED frontVars
    /\ UNCHANGED mergeVars

\* document.save(output_path).unwrap();
Save ==
    /\ pc = "returned"
    /\ pc' = "saved"
    /\ UNCHANGED frontVars
    /\ UNCHANGED mergeVars

\* -------------------------------------------------------- merge_documents()
\* format!("{}", n): the decimal digits of n.
RECURSIVE Dec(_)
Dec(n) == IF n < 10 THEN <<n>> ELSE Dec(n \div 10) \o <<n % 10>>

\* Bookmark::new(format!("Page_{}", pagenum), [0.0, 0.0, 1.0], 0, object_id)
NewBookmark(n, object_id) ==
    [title |-> Str("Page_", Dec(n)), color |-> <<0, 0, 1>>, format |-> 0, page |-> object_id,
     children |-> <<>>]

\* A numbering that advances with every page.
PagenumPerPage(n, pages) == n + Len(pages)

\* pagenum after one input: the closure increments it with the first page only.
PagenumAfter(n, pages) == IF pages # <<>> THEN n + 1 ELSE n

\* The bookmark list after one input: the closure of lines 59-73 adds one
\* bookmark, for the first page get_pages() yields, and none for the others.
BookmarksAfter(bookmarks, n, pages) ==
    IF pages # <<>> THEN Append(bookmarks, NewBookmark(n, Head(pages))) ELSE bookmarks

\* An offset that restarts on the last id of the document just read.
MaxIdReused(doc) == doc.max_id

\* max_id = doc.max_id + 1;
NextMaxId(doc) == doc.max_id + 1

\* One iteration of `for mut doc in input_documents` (lines 50-77).
ProcessInput ==
    /\ pc = "inputs"
    /\ idx <= Len(input_documents)
    /\ LET doc == RenumberObjectsWith(input_documents[idx], max_id)
           pages == GetPages(doc)
       IN /\ max_id' = NextMaxId(doc)
          /\ document' = [document EXCEPT
                            !.bookmarks = BookmarksAfter(@, pagenum, pages)]
          /\ pagenum' = PagenumAfter(pagenum, pages)
          /\ documents_pages' =
                MapExtend(documents_pages, [id \in Range(pages) |-> doc.objects[id]])
          /\ documents_objects' = MapExtend(documents_objects, doc.objects)
          /\ renumbered' = Append(renumbered, [start |-> max_id, doc |-> doc])
    /\ idx' = idx + 1
    /\ pc' = IF idx = Len(input_documents) THEN "scan" ELSE "inputs"
    /\ UNCHANGED frontVars
    /\ UNCHANGED <<catalog_object, pages_object, cursor, outline, result>>

\* The loop of line 84 visits documents_objects in ascending key order.
Pending == {i \in DOMAIN documents_objects : i > cursor}
Current == CHOOSE i \in Pending : \A j \in Pending : i <= j
AtObject(types) ==
    /\ pc = "scan"
    /\ Pending # {}
    /\ TypeName(documents_objects[Current]) \in types

\* b"Catalog" (lines 88-98): the id already held is kept, or this id taken;
\* the value becomes object.clone().
CatalogArm(held, object_id, object) ==
    Some(IF held.some THEN held.id ELSE object_id, object)

ScanCatalog ==
    /\ AtObject({"Catalog"})
    /\ catalog_object' = CatalogArm(catalog_object, Current, documents_objects[Current])
    /\ cursor' = Current
    /\ UNCHANGED <<pc, pages_object, document, outline, result>>
    /\ UNCHANGED frontVars
    /\ UNCHANGED loopVars

\* b"Pages" (lines 99-119): the object's dictionary, extended with the
\* dictionary held so far, under the id held so far (or this id).
PagesArm(held, object_id, object) ==
    IF IsDict(object)
    THEN LET dictionary == IF held.some /\ IsDict(held.obj)
                           THEN DictExtend(object.d, held.obj.d)
                           ELSE object.d
         IN Some(IF held.some THEN held.id ELSE object_id, Dict(dictionary))
    ELSE held

ScanPages ==
    /\ AtObject({"Pages"})
    /\ pages_object' = PagesArm(pages_object, Current, documents_objects[Current])
    /\ cursor' = Current
    /\ UNCHANGED <<pc, catalog_object, document, outline, result>>
    /\ UNCHANGED frontVars
    /\ UNCHANGED loopVars

\* b"Page", b"Outlines", b"Outline" (lines 120-122): nothing is done.
ScanIgnored ==
    /\ AtObject({"Page", "Outlines", "Outline"})
    /\ cursor' = Current
    /\ UNCHANGED <<pc, catalog_object, pages_object, document, outline, result>>
    /\ UNCHANGED frontVars
    /\ UNCHANGED loopVars

\* _ => document.objects.insert(*object_id, object.clone())
ScanOther ==
    /\ pc = "scan"
    /\ Pending # {}
    /\ TypeName(documents_objects[Current]) \notin
          {"Catalog", "Pages", "Page", "Outlines", "Outline"}
    /\ document' = [document EXCEPT
                      !.objects = MapInsert(@, Current, documents_objects[Current])]
    /\ cursor' = Current
    /\ UNCHANGED <<pc, catalog_object, pages_object, outline, result>>
    /\ UNCHANGED frontVars
    /\ UNCHANGED loopVars

\* if pages_object.is_none() { return document; }  (lines 130-134)
NoPagesReturn ==
    /\ pc = "scan"
    /\ Pending = {}
    /\ ~pages_object.some
    /\ pc' = "returned"
    /\ result' = "no_pages"
    /\ UNCHANGED <<document, outline>>
    /\ UNCHANGED frontVars
    /\ UNCHANGED loopVars
    /\ UNCHANGED scanVars

\* Pages inserted as they were collected.
PagesAsCollected(pages, pages_id) ==
    [id \in {i \in DOMAIN pages : IsDict(pages[i])} |-> pages[id]]

\* Lines 137-146: every collected page that is a dictionary is inserted with
\* Parent set to the id held in pages_object.
ReparentedPages(pages, pages_id) ==
    [id \in {i \in DOMAIN pages : IsDict(pages[i])} |->
        Dict(DictSet(pages[id].d, "Parent", Ref(pages_id)))]

InsertPages ==
    /\ pc = "scan"
    /\ Pending = {}
    /\ pages_object.some
    /\ document' = [document EXCEPT
                      !.objects = MapExtend(@, ReparentedPages(documents_pages, pages_object.id))]
    /\ pc' = "catalog_check"
    /\ UNCHANGED <<outline, result>>
    /\ UNCHANGED frontVars
    /\ UNCHANGED loopVars
    /\ UNCHANGED scanVars

\* if catalog_object.is_none() { return document; }  (lines 149-153)
NoCatalogReturn ==
    /\ pc = "catalog_check"
    /\ ~catalog_object.some
    /\ pc' = "returned"
    /\ result' = "no_catalog"
    /\ UNCHANGED <<document, outline>>
    /\ UNCHANGED frontVars
    /\ UNCHANGED loopVars
    /\ UNCHANGED scanVars

\* The keys of a BTreeMap in iteration order.
RECURSIVE Ascending(_)
Ascending(S) ==
    IF S = {} THEN <<>>
    ELSE LET m == CHOOSE i \in S : \A j \in S : i <= j
         IN <<m>> \o Ascending(S \ {m})

\* A rebuild that leaves the Count it found.
RebuiltPagesCountKept(dictionary, pages) ==
    DictSet(dictionary, "Kids", Arr(Ascending(DOMAIN pages)))

\* Lines 163-172: Count and Kids of the new Pages dictionary.
RebuiltPages(dictionary, pages) ==
    DictSet(DictSet(dictionary, "Count", Integer(Cardinality(DOMAIN pages))),
            "Kids", Arr(Ascending(DOMAIN pages)))

\* Lines 158-177.
RebuildPages ==
    /\ pc = "catalog_check"
    /\ catalog_object.some
    /\ document' =
          IF IsDict(pages_object.obj)
          THEN [document EXCEPT
                  !.objects = MapInsert(@, pages_object.id,
                                 Dict(RebuiltPages(pages_object.obj.d, documents_pages)))]
          ELSE document
    /\ pc' = "catalog"
    /\ UNCHANGED <<outline, result>>
    /\ UNCHANGED frontVars
    /\ UNCHANGED loopVars
    /\ UNCHANGED scanVars

\* Lines 180-190: the Catalog is written under the id held, with Pages set and
\* Outlines removed; the trailer's Root is set to that id.
RebuildCatalog ==
    /\ pc = "catalog"
    /\ document' =
          [document EXCEPT
             !.objects =
                IF IsDict(catalog_object.obj)
                THEN MapInsert(@, catalog_object.id,
                        Dict(DictRemove(DictSet(catalog_object.obj.d, "Pages",
                                                Ref(pages_object.id)), "Outlines")))
                ELSE @,
             !.trailer = DictSet(@, "Root", Ref(catalog_object.id))]
    /\ pc' = "renumber"
    /\ UNCHANGED <<outline, result>>
    /\ UNCHANGED frontVars
    /\ UNCHANGED loopVars
    /\ UNCHANGED scanVars

\* Lines 193-196: document.max_id = document.objects.len();
\* document.renumber_objects(), which is renumber_objects_with(1).
RenumberDocument ==
    /\ pc = "renumber"
    /\ document' = RenumberObjectsWith(
                      [document EXCEPT !.max_id = Cardinality(DOMAIN document.objects)], 1)
    /\ pc' = "adjust"
    /\ UNCHANGED <<outline, result>>
    /\ UNCHANGED frontVars
    /\ UNCHANGED loopVars
    /\ UNCHANGED scanVars

\* Document::adjust_zero_pages(): a bookmark whose page is (0, 0) takes the
\* page of its first child (add_bookmark(bookmark, None) gives no bookmark a
\* child, and no page has id 0).
AdjustedBookmark(bookmarks, i) ==
    IF bookmarks[i].page = 0 /\ bookmarks[i].children # <<>>
    THEN [bookmarks[i] EXCEPT !.page = bookmarks[Head(bookmarks[i].children)].page]
    ELSE bookmarks[i]

AdjustZeroPages ==
    /\ pc = "adjust"
    /\ document' = [document EXCEPT
                      !.bookmarks = [i \in DOMAIN @ |-> AdjustedBookmark(@, i)]]
    /\ pc' = "outline"
    /\ UNCHANGED <<outline, result>>
    /\ UNCHANGED frontVars
    /\ UNCHANGED loopVars
    /\ UNCHANGED scanVars

\* Document::build_outline(): None without bookmarks; otherwise the outline
\* root and one item per bookmark are stored under fresh ids above max_id,
\* and the root's id is returned.
OutlineRoot(doc) == doc.max_id + 1
OutlineObjects(doc) ==
    LET k == Len(doc.bookmarks)
        root == OutlineRoot(doc)
        item(j) ==
            LET base == [Title |-> doc.bookmarks[j].title, Parent |-> Ref(root),
                         Dest |-> Arr(<<doc.bookmarks[j].page>>)]
                withNext == IF j < k THEN DictSet(base, "Next", Ref(root + j + 1)) ELSE base
            IN Dict(IF j > 1 THEN DictSet(withNext, "Prev", Ref(root + j - 1)) ELSE withNext)
    IN [i \in root..(root + k) |->
          IF i = root
          THEN Dict([Count |-> Integer(k), First |-> Ref(root + 1), Last |-> Ref(root + k)])
          ELSE item(i - root)]

\* Lines 202-206: with an outline built, the object found under the Catalog
\* id held since line 155 gets Outlines, if it is a dictionary.
BuildOutline ==
    /\ pc = "outline"
    /\ IF document.bookmarks # <<>>
       THEN LET n == OutlineRoot(document)
                objs == MapExtend(document.objects, OutlineObjects(document))
                cid == catalog_object.id
            IN /\ outline' = Some(n, Dict(EmptyDict))
               /\ document' =
                     [document EXCEPT
                        !.max_id = n + Len(document.bookmarks),
                        !.objects =
                           IF cid \in DOMAIN objs /\ IsDict(objs[cid])
                           THEN MapInsert(objs, cid,
                                   Dict(DictSet(objs[cid].d, "Outlines", Ref(n))))
                           ELSE objs]
       ELSE UNCHANGED <<outline, document>>
    /\ pc' = "returned"
    /\ result' = "complete"
    /\ UNCHANGED frontVars
    /\ UNCHANGED loopVars
    /\ UNCHANGED scanVars

Next ==
    \/ GlobError
    \/ LoadPdf
    \/ LoadPdfPanic
    \/ LoadImage
    \/ LoadImageAbort
    \/ CallMerge
    \/ ProcessInput
    \/ ScanCatalog
    \/ ScanPages
    \/ ScanIgnored
    \/ ScanOther
    \/ NoPagesReturn
    \/ InsertPages
    \/ NoCatalogReturn
    \/ RebuildPages
    \/ RebuildCatalog
    \/ RenumberDocument
    \/ AdjustZeroPages
    \/ BuildOutline
    \/ Save

Spec == Init /\ [][Next]_vars

\* ----------------------------------------------------------------- helpers
RECURSIVE SumLen(_)
SumLen(seqs) == IF seqs = <<>> THEN 0 ELSE Len(Head(seqs)) + SumLen(Tail(seqs))

RECURSIVE Concat(_)
Concat(seqs) == IF seqs = <<>> THEN <<>> ELSE Head(seqs) \o Concat(Tail(seqs))

\* The pages of each input processed so far, in its own page-tree order, under
\* the ids the input got at line 52.
InputPages == [i \in DOMAIN renumbered |-> GetPages(renumbered[i].doc)]
InputIds(i) == DOMAIN renumbered[i].doc.objects

\* The per-input loop is over and the store has not been renumbered again.
LoopDone == pc \in {"scan", "catalog_check", "catalog", "renumber"}
                \/ (pc \in {"returned", "saved"} /\ result # "complete")

Returned == pc \in {"returned", "saved"}
Complete == Returned /\ result = "complete"

AllResolve(doc) ==
    /\ \A i \in DOMAIN doc.objects : DictRefs(doc.objects[i].d) \subseteq DOMAIN doc.objects
    /\ DictRefs(doc.trailer) \subseteq DOMAIN doc.objects

\* An input with a Catalog dictionary whose Pages is a Pages dictionary.
WellFormed(doc) ==
    /\ "Root" \in DOMAIN doc.trailer
    /\ doc.trailer["Root"].n \in DOMAIN doc.objects
    /\ LET c == doc.objects[doc.trailer["Root"].n]
       IN /\ IsDict(c) /\ TypeName(c) = "Catalog"
          /\ "Pages" \in DOMAIN c.d
          /\ c.d["Pages"].n \in DOMAIN doc.objects
          /\ IsDict(doc.objects[c.d["Pages"].n])
          /\ TypeName(doc.objects[c.d["Pages"].n]) = "Pages"

\* The Catalog the returned trailer designates and the Pages object it names.
RootCatalog == document.objects[document.trailer["Root"].n]
UnifiedPages == document.objects[RootCatalog.d["Pages"].n]

C2_CountKidsAgree ==
    Complete =>
        LET kids == KidsOf(UnifiedPages.d)
        IN /\ "Count" \in DOMAIN UnifiedPages.d
           /\ UnifiedPages.d["Count"] = Integer(Len(kids))
           /\ Len(kids) = Cardinality(DOMAIN documents_pages)
           /\ Len(kids) = SumLen(InputPages)
           /\ Cardinality(Range(kids)) = Len(kids)
           /\ \A j \in DOMAIN kids :
                 /\ kids[j] \in DOMAIN document.objects
                 /\ IsDict(document.objects[kids[j]])
                 /\ TypeName(document.objects[kids[j]]) = "Page"

\* Three inputs with pages were merged completely and the last renumbering
\* moved the unified Pages object.
C2_Witness ==
    /\ Complete
    /\ Len(renumbered) = 3
    /\ \A i \in DOMAIN InputPages : InputPages[i] # <<>>
    /\ Len(KidsOf(UnifiedPages.d)) >= 4
    /\ RootCatalog.d["Pages"].n # pages_object.id

\* The inputs processed so far that contributed at least one page, in order.
Contributing == Ascending({i \in DOMAIN renumbered : InputPages[i] # <<>>})

\* C3: after the per-input loop there is exactly one bookmark per input that
\* contributed a page and none for the others; the k-th is titled "Page_k",
\* k counting only contributing inputs, and targets the first page, in
\* page-tree order, of its input.
C3_OneBookmarkPerContributingInput ==
    LoopDone =>
        /\ Len(document.bookmarks) = Len(Contributing)
        /\ \A k \in DOMAIN document.bookmarks :
              /\ document.bookmarks[k].title.s = "Page_"
              /\ document.bookmarks[k].title.a = <<k>>
              /\ document.bookmarks[k].page = InputPages[Contributing[k]][1]

\* The loop is over; an input with objects but no page came before an input
\* with pages, and an input's first page is not its lowest-numbered page.
C3_Witness ==
    /\ LoopDone
    /\ Len(renumbered) = 3
    /\ \E i, j \in DOMAIN renumbered :
          /\ i < j
          /\ InputPages[i] = <<>>
          /\ InputIds(i) # {}
          /\ Len(InputPages[j]) >= 2
    /\ \E k \in DOMAIN document.bookmarks :
          \E q \in Range(InputPages[Contributing[k]]) : q < document.bookmarks[k].page
    /\ Len(document.bookmarks) = 2

\* C6: the id ranges given to the inputs are pairwise disjoint and increase
\* with input order: every id of input i is at least the running max_id
\* before input i and above every id of the inputs before it, so extending
\* documents_objects and documents_pages overwrites nothing; an empty input
\* leaves the running max_id unchanged.
C6_DisjointIncreasingRanges ==
    /\ \A i \in DOMAIN renumbered :
          /\ \A x \in InputIds(i) :
                /\ x >= renumbered[i].start
                /\ \A j \in 1..(i - 1) : \A y \in InputIds(j) : y < x
          /\ \A j \in 1..(i - 1) : \A y \in InputIds(j) : y < renumbered[i].start
          /\ LET after == IF i < Len(renumbered) THEN renumbered[i + 1].start ELSE max_id
             IN /\ InputIds(i) = {} => after = renumbered[i].start
                /\ after >= renumbered[i].start
                /\ \A x \in InputIds(i) : x < after
          /\ \A x \in InputIds(i) : documents_objects[x] = renumbered[i].doc.objects[x]
          /\ \A x \in Range(InputPages[i]) : documents_pages[x] = renumbered[i].doc.objects[x]
    /\ DOMAIN documents_objects = UNION {InputIds(i) : i \in DOMAIN renumbered}
    /\ DOMAIN documents_pages = UNION {Range(InputPages[i]) : i \in DOMAIN renumbered}
    /\ Cardinality(DOMAIN documents_pages) = SumLen(InputPages)

\* Three inputs were renumbered, the middle one with an empty store, the
\* others with objects.
C6_Witness ==
    /\ Len(renumbered) = 3
    /\ InputIds(1) # {}
    /\ InputIds(2) = {}
    /\ InputIds(3) # {}
    /\ renumbered[3].start = renumbered[2].start
    /\ renumbered[3].start > 1

\* C4: on a complete merge the Catalog the returned trailer's Root designates
\* has Outlines set to the root of the freshly built outline when there is a
\* bookmark, and has no Outlines field when there is none.
C4_RootCatalogLinksNewOutline ==
    Complete =>
        /\ document.trailer["Root"].n \in DOMAIN document.objects
        /\ TypeName(RootCatalog) = "Catalog"
        /\ document.bookmarks # <<>> =>
              /\ outline.some
              /\ "Outlines" \in DOMAIN RootCatalog.d
              /\ RootCatalog.d["Outlines"] = Ref(outline.id)
        /\ document.bookmarks = <<>> => "Outlines" \notin DOMAIN RootCatalog.d

\* C5: in the returned store of a complete merge of inputs whose references
\* all resolve, every Reference of every stored object and of the trailer
\* resolves to an object present in the store.
C5_EveryReferenceResolves ==
    (Complete /\ \A i \in DOMAIN input_documents : AllResolve(input_documents[i]))
        => AllResolve(document)

\* The Catalog-typed objects of the merged object set; the first encountered.
CatalogIds == {i \in DOMAIN documents_objects : TypeName(documents_objects[i]) = "Catalog"}
FirstCatalog == CHOOSE i \in CatalogIds : \A j \in CatalogIds : i <= j

\* C8: with several Catalog objects, the Catalog written to the store has the
\* id of the first one encountered and is built from that first Catalog's
\* dictionary (Pages rewritten, Outlines removed).
C8_FirstCatalogValueKept ==
    (pc = "renumber" /\ IsDict(catalog_object.obj)) =>
        /\ catalog_object.id = FirstCatalog
        /\ document.trailer["Root"] = Ref(FirstCatalog)
        /\ document.objects[FirstCatalog].d =
              DictRemove(DictSet(documents_objects[FirstCatalog].d, "Pages",
                                 Ref(pages_object.id)), "Outlines")

\* The documents of the loadable entries met so far, in order.
RECURSIVE LoadedFrom(_)
LoadedFrom(es) ==
    IF es = <<>> THEN <<>>
    ELSE (IF Head(es).res = "ok" THEN <<Head(es).doc>> ELSE <<>>) \o LoadedFrom(Tail(es))

\* C7: a discovered file that cannot be decoded is skipped and reported, and
\* the remaining inputs are still loaded, merged and saved: a decode failure
\* never aborts the batch.
C7_DecodeFailureNeverAborts == failed => pc # "aborted"

\* C7 as amended: a discovered file that cannot be decoded ends the process
\* at once (unwrap panics, image_to_doc aborts): nothing further is loaded,
\* merge_documents is never called and nothing is saved.  Only an error of
\* the glob iteration itself is reported and skipped, so a run that merges
\* has loaded every entry except those.
C7_DecodeFailureEndsTheRun ==
    /\ failed =>
          /\ pc = "aborted"
          /\ entries[next].res = "undecodable"
          /\ renumbered = <<>>
          /\ document = NewDoc(EmptyMap, EmptyDict)
    /\ pc = "aborted" => failed
    /\ pc \notin {"load", "aborted"} =>
          /\ input_documents = LoadedFrom(entries)
          /\ \A i \in DOMAIN entries : entries[i].res # "undecodable"
    /\ pc = "load" => input_documents = LoadedFrom(SubSeq(entries, 1, next - 1))

\* An undecodable file met after a document was loaded, with a loadable entry
\* still to come.
C7_Witness ==
    /\ failed
    /\ pc = "aborted"
    /\ Len(input_documents) = 1
    /\ next = 2
    /\ Len(entries) = 3
    /\ entries[3].res = "ok"

\* The Pages-typed dictionaries visited so far by the loop of line 84.
PagesSeen == {i \in DOMAIN documents_objects :
                 /\ i <= cursor
                 /\ TypeName(documents_objects[i]) = "Pages"
                 /\ IsDict(documents_objects[i])}
Defining(k) == {i \in PagesSeen : k \in DOMAIN documents_objects[i].d}
Earliest(S) == CHOOSE i \in S : \A j \in S : i <= j
PagesKeys == UNION {DOMAIN documents_objects[i].d : i \in PagesSeen}

PagesReparented ==
    \A i \in DOMAIN documents_pages :
        /\ i \in DOMAIN document.objects
        /\ document.objects[i].d = DictSet(documents_pages[i].d, "Parent", Ref(pages_object.id))

NoRootNoOutline ==
    /\ "Root" \notin DOMAIN document.trailer
    /\ ~outline.some
    /\ \A i \in DOMAIN document.objects :
          TypeName(document.objects[i]) \notin {"Outlines", "Outline"}

\* C10: when a Pages root is found but no Catalog, the returned store holds
\* every collected page with Parent set to the authoritative Pages id and
\* holds the authoritative Pages object with Count and Kids rewritten to the
\* collected pages; no trailer Root is set and no outline is built.
C10_PageTreeRebuiltBeforeHalt ==
    (Returned /\ result = "no_catalog") =>
        /\ PagesReparented
        /\ pages_object.id \in DOMAIN document.objects
        /\ document.objects[pages_object.id].d =
              RebuiltPages(pages_object.obj.d, documents_pages)
        /\ NoRootNoOutline

\* C10 as amended: when a Pages root is found but no Catalog, the returned
\* store holds every collected page with Parent set to the authoritative
\* Pages id, but not the authoritative Pages object (no Pages-typed object at
\* all: Count and Kids are not rewritten); no trailer Root is set and no
\* outline is built.
C10_PagesReparentedOnlyBeforeHalt ==
    (Returned /\ result = "no_catalog") =>
        /\ pages_object.some
        /\ PagesReparented
        /\ pages_object.id \notin DOMAIN document.objects
        /\ \A i \in DOMAIN document.objects : TypeName(document.objects[i]) # "Pages"
        /\ NoRootNoOutline

\* merge_documents returned for want of a Catalog with pages of two inputs
\* collected, one of which had another Parent than the authoritative Pages id.
C10_Witness ==
    /\ Returned
    /\ result = "no_catalog"
    /\ Cardinality(DOMAIN documents_pages) >= 2
    /\ \E i \in DOMAIN documents_pages :
          documents_pages[i].d["Parent"] # Ref(pages_object.id)
====
